---- MODULE Spec2Model ----
(***************************************************************************)
(* Model of OpenICC::core::CameraCalibrator (camera_calibrator.cc):        *)
(* view ingestion with pose initialisation and de-duplication, the staged  *)
(* bundle adjustment of RunCalibration with its two pruning sweeps, and    *)
(* the publication of the results by CalibrateCameraFromJson.              *)
(*                                                                         *)
(* Abstractions.  A parameter of a view (or the point of a track) is       *)
(* represented by the name of the step that last had it free in a          *)
(* minimisation ("init" until then): a parameter whose tag did not change  *)
(* was not written.  The reprojection error of a view is a value of Errs   *)
(* that stays the same while no parameter and no observation of the        *)
(* dataset changes (reproj memoises utils::GetReprojErrorOfView); a        *)
(* minimisation invalidates it.  Camera positions are integer 3-vectors.   *)
(***************************************************************************)
EXTENDS Integers, Sequences, FiniteSets, TLC

\* ------------------------------------------------------------------ bounds
MaxFrames == 3

\* --------------------------------------------------------------- constants
CoarseThreshold == 5
TightThreshold == 2
MinCorrespondences == 4

CameraModels ==
  {"PINHOLE", "PINHOLE_RADIAL_TANGENTIAL", "DIVISION_UNDISTORTION",
   "DOUBLE_SPHERE", "EXTENDED_UNIFIED", "FISHEYE"}

\* configured values of min_num_view_ and grid_size_
MinNumViews == {2}
GridSizes == {2}

\* camera positions returned by the pose initialiser; with a grid size of 2
\* the second is too close to the first and the third, the third is exactly
\* the grid size away from the first
Points == {<<0, 0, 0>>, <<1, 1, 0>>, <<2, 0, 0>>, <<4, 0, 0>>}

\* per-view reprojection errors (pixels): equal to the tight threshold,
\* equal to the coarse threshold, above both
Errs == {2, 5, 6}

\* ids of the target points of the scene
TrackIds == 1..5

\* image_points of one frame, as the list of board_pt3_ids
FrameIds ==
  {<< >>, <<1, 2, 3>>, <<1, 2, 3, 4>>, <<2, 3, 2, 4, 5>>, <<2, 6, 3, 4, 5>>}

PoseParams == {"ORIENTATION", "POSITION"}
IntrinsicsTypes ==
  {"FOCAL_LENGTH", "ASPECT_RATIO", "SKEW", "PRINCIPAL_POINTS",
   "RADIAL_DISTORTION", "TANGENTIAL_DISTORTION"}
Params == PoseParams \cup IntrinsicsTypes

VARIABLES
  camera_model_,        \* constructor argument
  optimize_board_pts_,  \* constructor argument
  min_num_view_,        \* configured minimum number of views
  grid_size_,           \* configured minimum distance between view positions
  views,                \* recon_calib_dataset_: view id -> view
  tracks,               \* recon_calib_dataset_: track id -> track
  next_view_id,         \* recon_calib_dataset_: id of the next view
  reproj,               \* view id -> reprojection error, where evaluated
  saved_poses,          \* positions of the accepted frames
  views_initialized,    \* frames processed by the ingestion loop
  frame,                \* the frame the ingestion loop processed last
  ba_options,           \* theia::BundleAdjustmentOptions of RunCalibration
  ids_to_remove,        \* RemoveViewsReprojError: view id -> error
  pc,                   \* position in CalibrateCameraFromJson / API client
  written,              \* files written so far
  total_repro_error,    \* <<sum, count>> of the final report, or << >>
  ret,                  \* [run, calib]: what RunCalibration and
                        \* CalibrateCameraFromJson returned, or "none"
  last_call,            \* the last call the client made on the calibrator
  printed,              \* what that call printed, if it was PrintResult
  json_file,            \* content of the calibration file, << >> if none
  loaded,               \* what that call loaded, if it was
                        \* read_camera_calibration, << >> otherwise
  log                   \* steps RunCalibration executed, with the view count
                        \* of the dataset each was run on

vars ==
  <<camera_model_, optimize_board_pts_, min_num_view_, grid_size_, views,
    tracks, next_view_id, reproj, saved_poses, views_initialized, frame,
    ba_options, ids_to_remove, pc, written, total_repro_error, ret, last_call,
    printed, json_file, loaded, log>>

config == <<camera_model_, optimize_board_pts_, min_num_view_, grid_size_>>
dataset == <<views, tracks, next_view_id>>
ingestion == <<saved_poses, views_initialized, frame>>
client == <<last_call, printed, loaded>>

\* -------------------------------------------------------------- the dataset
NumViews == Cardinality(DOMAIN views)

ViewIds == DOMAIN views

\* lines 101-106: the principal point and the focal length are set before
\* SetCameraIntrinsicsModelType.  The camera of the first view of the
\* intrinsics group is a pinhole camera until then, and the call replaces its
\* intrinsics by fresh ones when the kind is another one; the camera of a
\* later view shares the intrinsics of the group, which have the kind already
SeedsKept(vs, model) ==
  model = "PINHOLE" \/ DOMAIN vs # {}

\* lines 108-126: the distortion seeds, set after the model type
SeedDistortion(model, distortion) ==
  CASE model = "DIVISION_UNDISTORTION" -> distortion
    [] model = "DOUBLE_SPHERE" -> "xi=-0.25,alpha=0.5"
    [] model = "EXTENDED_UNIFIED" -> "alpha=0.5,beta=1.0"
    [] OTHER -> "default"

\* theia::Reconstruction::AddView and the seeding of camera_calibrator.cc:
\* the intrinsics are shared by the views of the group, so the seeds of a
\* new view are the seeds of every view
AddView(vs, view_id, position, focal_length, distortion, model) ==
  LET principal_point ==
        IF SeedsKept(vs, model) THEN "image_center" ELSE "default"
      focal == IF SeedsKept(vs, model) THEN focal_length ELSE "default"
  IN [v \in DOMAIN vs \cup {view_id} |->
        IF v = view_id
        THEN [estimated |-> TRUE,
              model |-> model,
              principal_point |-> principal_point,
              initial_position |-> position,
              focal_length |-> focal,
              distortion |-> SeedDistortion(model, distortion),
              features |-> {},
              wr |-> [p \in Params |-> "init"]]
        ELSE [vs[v] EXCEPT
                !.principal_point = principal_point,
                !.focal_length = focal,
                !.distortion = SeedDistortion(model, distortion)]]

\* theia::Reconstruction::AddObservation: fails when the view or the track is
\* missing or the view already observes the track
CanAddObservation(vs, ts, view_id, track_id) ==
  /\ view_id \in DOMAIN vs
  /\ track_id \in DOMAIN ts
  /\ track_id \notin vs[view_id].features

AddObservationViews(vs, ts, view_id, track_id) ==
  IF CanAddObservation(vs, ts, view_id, track_id)
  THEN [vs EXCEPT ![view_id].features = @ \cup {track_id}]
  ELSE vs

AddObservationTracks(vs, ts, view_id, track_id) ==
  IF CanAddObservation(vs, ts, view_id, track_id)
  THEN [ts EXCEPT ![track_id].view_ids = @ \cup {view_id}]
  ELSE ts

\* the loop over board_pt3_ids, the result of each insertion ignored
RECURSIVE AddObservations(_, _, _, _)
AddObservations(vs, ts, view_id, ids) ==
  IF ids = << >>
  THEN <<vs, ts>>
  ELSE AddObservations(AddObservationViews(vs, ts, view_id, Head(ids)),
                       AddObservationTracks(vs, ts, view_id, Head(ids)),
                       view_id, Tail(ids))

\* what the calls of AddObservation in that loop return, in order
RECURSIVE AddObservationResults(_, _, _, _)
AddObservationResults(vs, ts, view_id, ids) ==
  IF ids = << >>
  THEN << >>
  ELSE <<CanAddObservation(vs, ts, view_id, Head(ids))>>
         \o AddObservationResults(
              AddObservationViews(vs, ts, view_id, Head(ids)),
              AddObservationTracks(vs, ts, view_id, Head(ids)),
              view_id, Tail(ids))

\* line 257 reads the point of a track the scene does not have
ReadsMissingTrack(ts, ids) ==
  \E i \in DOMAIN ids : ids[i] \notin DOMAIN ts

\* theia::Reconstruction::RemoveView: the view leaves its tracks, a track
\* left without views is removed, then the view is erased
RemoveViewTracks(vs, ts, view_id) ==
  IF view_id \notin DOMAIN vs
  THEN ts
  ELSE LET kept == {t \in DOMAIN ts : ts[t].view_ids # {view_id}}
       IN [t \in kept |-> [ts[t] EXCEPT !.view_ids = @ \ {view_id}]]

RemoveViewViews(vs, view_id) ==
  [v \in DOMAIN vs \ {view_id} |-> vs[v]]

\* ------------------------------------------------------ pose initialisation
\* utils::initialize_pinhole_camera / initialize_radial_undistortion_camera:
\* no success with too few correspondences, otherwise RANSAC decides
InitializerSucceeds(ids, consensus) ==
  Len(ids) >= MinCorrespondences /\ consensus

\* squared Euclidean norm of p - q
SquaredNorm(p, q) ==
  (p[1] - q[1]) * (p[1] - q[1]) + (p[2] - q[2]) * (p[2] - q[2])
    + (p[3] - q[3]) * (p[3] - q[3])

\* mutant: a position exactly the grid size away is too close
TooCloseOrAtGrid(position, saved, grid) ==
  SquaredNorm(position, saved) <= grid * grid

\* (position - saved_poses[i]).norm() < grid_size_
TooClose(position, saved, grid) ==
  SquaredNorm(position, saved) < grid * grid

\* the loop over saved_poses
TakeImage(position, saved, grid) ==
  \A i \in 1..Len(saved) : ~TooClose(position, saved[i], grid)

\* mutant: && for ||
SkipFrameIfBoth(take_image, success_init) ==
  ~take_image /\ ~success_init

\* mutant: the success flag of the initialiser is not looked at
SkipFrameIfDuplicate(take_image, success_init) ==
  ~take_image

\* if (!take_image || !success_init) continue;
SkipFrame(take_image, success_init) ==
  ~take_image \/ ~success_init

\* --------------------------------------------------------------------- Init
DefaultBaOptions ==
  [constant_camera_orientation |-> FALSE,
   constant_camera_position |-> FALSE,
   intrinsics_to_optimize |-> {"FOCAL_LENGTH", "RADIAL_DISTORTION"},
   loss_function_type |-> "TRIVIAL",
   use_homogeneous_point_parametrization |-> FALSE]

\* no frame: before the first and after the last iteration of the loop
NoFrame ==
  [ids |-> << >>, position |-> <<0, 0, 0>>, success_init |-> FALSE,
   results |-> << >>]

Init ==
  /\ camera_model_ \in CameraModels
  /\ optimize_board_pts_ \in BOOLEAN
  /\ min_num_view_ \in MinNumViews
  /\ grid_size_ \in GridSizes
  /\ views = << >>
  /\ tracks = << >>
  /\ next_view_id = 0
  /\ reproj = << >>
  /\ saved_poses = << >>
  /\ views_initialized = 0
  /\ frame = NoFrame
  /\ ba_options = DefaultBaOptions
  /\ ids_to_remove = << >>
  /\ pc = "start"
  /\ written = {}
  /\ total_repro_error = << >>
  /\ ret = [run |-> "none", calib |-> "none"]
  /\ last_call = [name |-> "CalibrateCameraFromJson", arg |-> 0]
  /\ printed = {}
  /\ json_file = << >>
  /\ loaded = << >>
  /\ log = << >>

\* ---------------------------------------------------------------- ingestion
\* io::scene_points_to_calib_dataset: one track per scene point
ReadScene ==
  /\ pc = "start"
  /\ tracks' = [t \in TrackIds |-> [point |-> "init", view_ids |-> {}]]
  /\ pc' = "ingest"
  /\ UNCHANGED <<config, client, json_file, views, next_view_id, reproj,
                 ingestion,
                 ba_options, ids_to_remove, written, total_repro_error, ret,
                 log>>

\* one iteration of the loop over the frames of the scene.  The position of a
\* frame whose initialisation failed is whatever the initialiser left in the
\* uninitialised vector.  A frame with a correspondence to a point the scene
\* does not have dereferences a null track at line 257: the process stops
\* there or goes on with an arbitrary world point.
IngestFrame ==
  /\ pc = "ingest"
  /\ views_initialized < MaxFrames
  /\ \E ids \in FrameIds, position \in Points, consensus \in BOOLEAN,
        stops \in BOOLEAN :
       LET success_init == InitializerSucceeds(ids, consensus)
           take_image == TakeImage(position, saved_poses, grid_size_)
           radial_distortion ==
             IF camera_model_ \in {"PINHOLE", "PINHOLE_RADIAL_TANGENTIAL"}
             THEN "zero" ELSE "estimated"
           withView == AddView(views, next_view_id, position, "estimated",
                               radial_distortion, camera_model_)
           filled == AddObservations(withView, tracks, next_view_id, ids)
           results ==
             AddObservationResults(withView, tracks, next_view_id, ids)
       IN /\ stops => ReadsMissingTrack(tracks, ids)
          /\ IF stops
             THEN /\ pc' = "crashed"
                  /\ UNCHANGED <<dataset, ingestion>>
             ELSE /\ pc' = pc
                  /\ views_initialized' = views_initialized + 1
                  /\ IF SkipFrame(take_image, success_init)
                     THEN /\ frame' = [ids |-> ids, position |-> position,
                                       success_init |-> success_init,
                                       results |-> << >>]
                          /\ UNCHANGED <<dataset, saved_poses>>
                     ELSE /\ frame' = [ids |-> ids, position |-> position,
                                       success_init |-> success_init,
                                       results |-> results]
                          /\ saved_poses' = Append(saved_poses, position)
                          /\ views' = filled[1]
                          /\ tracks' = filled[2]
                          /\ next_view_id' = next_view_id + 1
  /\ UNCHANGED <<config, client, json_file, reproj, ba_options,
                 ids_to_remove, written, total_repro_error, ret, log>>

\* the end of the frames: theia::WritePlyFile of the initial poses.  The
\* locals of the loop are not read again: the frame and the progress counter
\* are forgotten.
EndIngestion ==
  /\ pc = "ingest"
  /\ written' = written \cup {"_ransac_poses.ply"}
  /\ pc' = "rc_gate"
  /\ frame' = NoFrame
  /\ views_initialized' = 0
  /\ UNCHANGED <<config, client, json_file, dataset, reproj, saved_poses,
                 ba_options, ids_to_remove, total_repro_error, ret, log>>

\* ---------------------------------------------------------- bundle adjustment
\* the parameters a minimisation with these options may change
FreeParams(options) ==
  (IF options.constant_camera_orientation THEN {} ELSE {"ORIENTATION"})
    \cup (IF options.constant_camera_position THEN {} ELSE {"POSITION"})
    \cup options.intrinsics_to_optimize

\* mutant: a minimisation that loses one of the views it was given
BundleAdjustViewsLosingView(options, view_ids, vs, step) ==
  [v \in DOMAIN vs \ {CHOOSE w \in view_ids : TRUE} |-> vs[v]]

\* theia::BundleAdjustViews: the free parameters of the given views are
\* written by the step; tracks are held constant
BundleAdjustViews(options, view_ids, vs, step) ==
  [v \in DOMAIN vs |->
     IF v \in view_ids
     THEN [vs[v] EXCEPT !.wr = [p \in Params |->
                                  IF p \in FreeParams(options)
                                  THEN step ELSE vs[v].wr[p]]]
     ELSE vs[v]]

\* theia::BundleAdjustTracks: the points of the given tracks are written by
\* the step; cameras are held constant
BundleAdjustTracks(options, track_ids, ts, step) ==
  [t \in DOMAIN ts |->
     IF t \in track_ids THEN [ts[t] EXCEPT !.point = step] ELSE ts[t]]

\* lines 140-144
InitialBaOptions ==
  [DefaultBaOptions EXCEPT !.loss_function_type = "HUBER"]

\* mutant: the radial distortion freed for the pinhole model too
Stage1OptionsRadialForAll(options, model) ==
  [options EXCEPT
     !.constant_camera_orientation = FALSE,
     !.constant_camera_position = FALSE,
     !.intrinsics_to_optimize = {"FOCAL_LENGTH", "RADIAL_DISTORTION"}]

\* lines 149-156
Stage1Options(options, model) ==
  [options EXCEPT
     !.constant_camera_orientation = FALSE,
     !.constant_camera_position = FALSE,
     !.intrinsics_to_optimize =
        IF model # "PINHOLE"
        THEN {"FOCAL_LENGTH", "RADIAL_DISTORTION"}
        ELSE {"FOCAL_LENGTH"}]

\* mutant: the camera position left free in the principal point stage
Stage2OptionsPositionFree(options) ==
  [options EXCEPT
     !.constant_camera_orientation = TRUE,
     !.constant_camera_position = FALSE,
     !.intrinsics_to_optimize = {"PRINCIPAL_POINTS"}]

\* lines 168-171
Stage2Options(options) ==
  [options EXCEPT
     !.constant_camera_orientation = TRUE,
     !.constant_camera_position = TRUE,
     !.intrinsics_to_optimize = {"PRINCIPAL_POINTS"}]

\* lines 184-197
Stage3Options(options, model) ==
  [options EXCEPT
     !.constant_camera_orientation = FALSE,
     !.constant_camera_position = FALSE,
     !.intrinsics_to_optimize =
        {"PRINCIPAL_POINTS", "FOCAL_LENGTH", "ASPECT_RATIO"}
          \cup (IF model = "PINHOLE" THEN {"RADIAL_DISTORTION"}
                ELSE IF model = "PINHOLE_RADIAL_TANGENTIAL"
                THEN {"TANGENTIAL_DISTORTION"}
                ELSE {})]

\* mutant: the homogeneous parametrization is not switched on
BoardOptionsUnchanged(options) ==
  options

\* line 210
BoardOptions(options) ==
  [options EXCEPT !.use_homogeneous_point_parametrization = TRUE]

\* ------------------------------------------------------------------ pruning
\* utils::GetReprojErrorOfView on every view: the errors already evaluated
\* stay, the others are any error
Evaluations(vs, known) ==
  {e \in [DOMAIN vs -> Errs] :
     \A v \in DOMAIN vs \cap DOMAIN known : e[v] = known[v]}

\* mutant: a view at the threshold is condemned too
ReachesThreshold(view_reproj_error, max_reproj_error) ==
  view_reproj_error >= max_reproj_error

\* if (view_reproj_error > max_reproj_error)
ExceedsThreshold(view_reproj_error, max_reproj_error) ==
  view_reproj_error > max_reproj_error

\* first loop of RemoveViewsReprojError: the map ids_to_remove
CollectIdsToRemove(errors, max_reproj_error) ==
  LET ids == {v \in DOMAIN errors :
                ExceedsThreshold(errors[v], max_reproj_error)}
  IN [v \in ids |-> errors[v]]

\* mutant: the loop stops after the first condemned view
RemoveFirstViewOnly(vs, ids) ==
  IF ids = {}
  THEN vs
  ELSE RemoveViewViews(vs, CHOOSE x \in ids : \A y \in ids : x <= y)

\* second loop of RemoveViewsReprojError, on the views
RECURSIVE RemoveViews(_, _)
RemoveViews(vs, ids) ==
  IF ids = {}
  THEN vs
  ELSE LET v == CHOOSE x \in ids : \A y \in ids : x <= y
       IN RemoveViews(RemoveViewViews(vs, v), ids \ {v})

\* second loop of RemoveViewsReprojError, on the tracks
RECURSIVE RemoveViewsFromTracks(_, _, _)
RemoveViewsFromTracks(vs, ts, ids) ==
  IF ids = {}
  THEN ts
  ELSE LET v == CHOOSE x \in ids : \A y \in ids : x <= y
       IN RemoveViewsFromTracks(RemoveViewViews(vs, v),
                                RemoveViewTracks(vs, ts, v), ids \ {v})

Restrict(f, S) == [x \in DOMAIN f \cap S |-> f[x]]

LogStep(step) == Append(log, [step |-> step, nviews |-> NumViews])

\* ----------------------------------------------------------- RunCalibration
\* mutant: the comparison off by one
NotEnoughViewsOffByOne(num_views, min_num_view) ==
  num_views < min_num_view - 1

\* if (recon_calib_dataset_.NumViews() < min_num_view_)
NotEnoughViews(num_views, min_num_view) ==
  num_views < min_num_view

\* lines 132-144
RunGate ==
  /\ pc = "rc_gate"
  /\ IF NotEnoughViews(NumViews, min_num_view_)
     THEN /\ ret' = [ret EXCEPT !.run = "false"]
          /\ pc' = "calib_check"
          /\ UNCHANGED ba_options
     ELSE /\ ba_options' = InitialBaOptions
          /\ pc' = "ba1"
          /\ UNCHANGED ret
  /\ UNCHANGED <<config, client, json_file, dataset, reproj, ingestion,
                 ids_to_remove, written, total_repro_error, log>>

\* a call of BundleAdjustViews on all views under the options of a stage
ViewsStage(from, to, step, options) ==
  /\ pc = from
  /\ ba_options' = options
  /\ views' = BundleAdjustViews(options, ViewIds, views, step)
  /\ reproj' = << >>
  /\ log' = LogStep(step)
  /\ pc' = to
  /\ UNCHANGED <<config, client, json_file, tracks, next_view_id, ingestion,
                 ids_to_remove, written, total_repro_error, ret>>

\* mutant: a view is removed as soon as its error is found above the bound
CollectRemovingAtOnce(from, to, step, max_reproj_error) ==
  /\ pc = from
  /\ \E errors \in Evaluations(views, reproj) :
       LET ids == CollectIdsToRemove(errors, max_reproj_error)
       IN /\ reproj' = errors
          /\ ids_to_remove' = ids
          /\ views' = RemoveViews(views, DOMAIN ids)
          /\ tracks' = RemoveViewsFromTracks(views, tracks, DOMAIN ids)
  /\ log' = LogStep(step)
  /\ pc' = to
  /\ UNCHANGED <<config, client, json_file, next_view_id, ingestion,
                 ba_options, written, total_repro_error, ret>>

\* first loop of RemoveViewsReprojError(max_reproj_error)
Collect(from, to, step, max_reproj_error) ==
  /\ pc = from
  /\ \E errors \in Evaluations(views, reproj) :
       /\ reproj' = errors
       /\ ids_to_remove' = CollectIdsToRemove(errors, max_reproj_error)
  /\ log' = LogStep(step)
  /\ pc' = to
  /\ UNCHANGED <<config, client, json_file, dataset, ingestion, ba_options,
                 written, total_repro_error, ret>>

\* second loop of RemoveViewsReprojError
Remove(from, to) ==
  /\ pc = from
  /\ views' = RemoveViews(views, DOMAIN ids_to_remove)
  /\ tracks' = RemoveViewsFromTracks(views, tracks, DOMAIN ids_to_remove)
  /\ reproj' = Restrict(reproj, DOMAIN views')
  /\ ids_to_remove' = << >>
  /\ pc' = to
  /\ UNCHANGED <<config, client, json_file, next_view_id, ingestion,
                 ba_options, written, total_repro_error, ret, log>>

\* a re-check of the minimum number of views
Gate(from, to) ==
  /\ pc = from
  /\ IF NotEnoughViews(NumViews, min_num_view_)
     THEN /\ ret' = [ret EXCEPT !.run = "false"]
          /\ pc' = "calib_check"
     ELSE /\ pc' = to
          /\ UNCHANGED ret
  /\ UNCHANGED <<config, client, json_file, dataset, reproj, ingestion,
                 ba_options, ids_to_remove, written, total_repro_error, log>>

\* lines 146-160
Stage1 ==
  ViewsStage("ba1", "prune5", "ba1", Stage1Options(ba_options, camera_model_))

\* line 162
Prune5Collect == Collect("prune5", "prune5_remove", "prune5", CoarseThreshold)

Prune5Remove == Remove("prune5_remove", "ba2")

\* lines 164-174
Stage2 ==
  ViewsStage("ba2", "gate2", "ba2", Stage2Options(ba_options))

\* mutant: the full stage left out
Gate2SkipsStage3 == Gate("gate2", "prune2")

\* lines 176-179
Gate2 == Gate("gate2", "ba3")

\* lines 181-199
Stage3 ==
  ViewsStage("ba3", "prune2", "ba3", Stage3Options(ba_options, camera_model_))

\* line 201
Prune2Collect == Collect("prune2", "prune2_remove", "prune2", TightThreshold)

Prune2Remove == Remove("prune2_remove", "gate3")

\* lines 203-206
\* mutant: the view count is not looked at after the second sweep
Gate3WithoutCheck ==
  /\ pc = "gate3"
  /\ pc' = "board"
  /\ UNCHANGED <<config, client, json_file, dataset, reproj, ingestion,
                 ba_options, ids_to_remove, written, total_repro_error, ret,
                 log>>

\* lines 203-206
Gate3 == Gate("gate3", "board")

\* lines 208-213
BoardPoints ==
  /\ pc = "board"
  /\ optimize_board_pts_
  /\ ba_options' = BoardOptions(ba_options)
  /\ tracks' = BundleAdjustTracks(ba_options', DOMAIN tracks, tracks,
                                  "ba_tracks")
  /\ reproj' = << >>
  /\ log' = LogStep("ba_tracks")
  /\ pc' = "ba4"
  /\ UNCHANGED <<config, client, json_file, views, next_view_id, ingestion,
                 ids_to_remove, written, total_repro_error, ret>>

\* lines 214-215
BoardViews ==
  ViewsStage("ba4", "rc_end", "ba4", ba_options)

\* line 218
RunReturnsTrue ==
  /\ \/ pc = "board" /\ ~optimize_board_pts_
     \/ pc = "rc_end"
  /\ ret' = [ret EXCEPT !.run = "true"]
  /\ pc' = "calib_check"
  /\ UNCHANGED <<config, client, json_file, dataset, reproj, ingestion,
                 ba_options, ids_to_remove, written, total_repro_error, log>>

\* ------------------------------------------------- CalibrateCameraFromJson
\* mutant: the result of RunCalibration is not looked at
CalibrationNeverFails(run) ==
  FALSE

\* if (!RunCalibration())
CalibrationHasFailed(run) ==
  run = "false"

\* lines 347-350
CalibrationFailed ==
  /\ pc = "calib_check"
  /\ CalibrationHasFailed(ret.run)
  /\ ret' = [ret EXCEPT !.calib = "false"]
  /\ pc' = "done"
  /\ UNCHANGED <<config, client, json_file, dataset, reproj, ingestion,
                 ba_options, ids_to_remove, written, total_repro_error, log>>

RECURSIVE SumOver(_, _)
SumOver(f, S) ==
  IF S = {}
  THEN 0
  ELSE LET x == CHOOSE y \in S : TRUE IN f[x] + SumOver(f, S \ {x})

\* lines 352-370: the mean of the per-view errors, as <<sum, count>>
ReportError ==
  /\ pc = "calib_check"
  /\ ~CalibrationHasFailed(ret.run)
  /\ \E errors \in Evaluations(views, reproj) :
       /\ reproj' = errors
       /\ total_repro_error' = <<SumOver(errors, DOMAIN errors), NumViews>>
  /\ pc' = "publish"
  /\ UNCHANGED <<config, client, json_file, dataset, ingestion, ba_options,
                 ids_to_remove, written, ret, log>>

\* the model-specific distortion parameters of a camera-model kind
KindDistortion(kind) ==
  CASE kind = "PINHOLE" -> {"RADIAL_DISTORTION_1", "RADIAL_DISTORTION_2"}
    [] kind = "PINHOLE_RADIAL_TANGENTIAL" ->
         {"RADIAL_DISTORTION_1", "RADIAL_DISTORTION_2", "RADIAL_DISTORTION_3",
          "TANGENTIAL_DISTORTION_1", "TANGENTIAL_DISTORTION_2"}
    [] kind = "DIVISION_UNDISTORTION" -> {"RADIAL_DISTORTION_1"}
    [] kind = "DOUBLE_SPHERE" -> {"XI", "ALPHA"}
    [] kind = "EXTENDED_UNIFIED" -> {"ALPHA", "BETA"}
    [] kind = "FISHEYE" ->
         {"RADIAL_DISTORTION_1", "RADIAL_DISTORTION_2", "RADIAL_DISTORTION_3",
          "RADIAL_DISTORTION_4"}

\* the entries of the parameter vector of a kind that are serialized
KindEntries(kind) ==
  {"FOCAL_LENGTH", "PRINCIPAL_POINT_X", "PRINCIPAL_POINT_Y", "ASPECT_RATIO"}
    \cup KindDistortion(kind)

\* the theia::OptimizeIntrinsicsType that frees an entry
EntryType(entry) ==
  CASE entry = "FOCAL_LENGTH" -> "FOCAL_LENGTH"
    [] entry = "ASPECT_RATIO" -> "ASPECT_RATIO"
    [] entry \in {"PRINCIPAL_POINT_X", "PRINCIPAL_POINT_Y"} ->
         "PRINCIPAL_POINTS"
    [] entry \in {"TANGENTIAL_DISTORTION_1", "TANGENTIAL_DISTORTION_2"} ->
         "TANGENTIAL_DISTORTION"
    [] OTHER -> "RADIAL_DISTORTION"

\* the value of an entry of the camera of a view: what AddView seeded, until
\* a minimisation has written it
EntryValue(view, entry) ==
  IF view.wr[EntryType(entry)] # "init"
  THEN view.wr[EntryType(entry)]
  ELSE CASE entry = "FOCAL_LENGTH" -> view.focal_length
         [] entry \in {"PRINCIPAL_POINT_X", "PRINCIPAL_POINT_Y"} ->
              view.principal_point
         [] entry = "ASPECT_RATIO" -> "default"
         [] OTHER -> view.distortion

\* cam.intrinsics() of the camera of a view
CameraIntrinsics(view) ==
  [entry \in KindEntries(view.model) |-> EntryValue(view, entry)]

\* io::write_camera_calibration: the kind, the image size of the camera, the
\* fps of the scene and every serialized entry
WriteCameraCalibration(view) ==
  [intrinsic_type |-> view.model,
   image_size |-> "scene_size",
   fps |-> "camera_fps",
   intrinsics |-> CameraIntrinsics(view)]

\* the camera and fps the caller hands to read_camera_calibration
CallerCamera ==
  [model |-> "PINHOLE",
   image_size |-> "unset",
   intrinsics |-> [entry \in KindEntries("PINHOLE") |-> "default"],
   fps |-> "unset"]

\* the entries read_camera_calibration sets from the file
EntriesRead(intrinsic_type) ==
  {"PRINCIPAL_POINT_X", "PRINCIPAL_POINT_Y", "FOCAL_LENGTH"}
    \cup (CASE intrinsic_type = "DIVISION_UNDISTORTION" ->
                {"RADIAL_DISTORTION_1", "ASPECT_RATIO"}
           [] intrinsic_type = "DOUBLE_SPHERE" ->
                {"XI", "ALPHA", "ASPECT_RATIO"}
           [] intrinsic_type = "EXTENDED_UNIFIED" ->
                {"ALPHA", "BETA", "ASPECT_RATIO"}
           [] intrinsic_type = "FISHEYE" ->
                {"RADIAL_DISTORTION_1", "RADIAL_DISTORTION_2",
                 "RADIAL_DISTORTION_3", "RADIAL_DISTORTION_4",
                 "ASPECT_RATIO"}
           [] intrinsic_type = "PINHOLE_RADIAL_TANGENTIAL" ->
                {"RADIAL_DISTORTION_1", "RADIAL_DISTORTION_2",
                 "RADIAL_DISTORTION_3", "TANGENTIAL_DISTORTION_1",
                 "TANGENTIAL_DISTORTION_2", "ASPECT_RATIO"}
           [] intrinsic_type = "PINHOLE" -> {"ASPECT_RATIO"}
           [] OTHER -> {})

\* mutant: a reader that does not set the fps of the caller
ReadCameraCalibrationWithoutFps(json_content, camera) ==
  LET type == json_content.intrinsic_type
      typed == IF camera.model = type
               THEN camera.intrinsics
               ELSE [entry \in KindEntries(type) |-> "default"]
  IN [model |-> type,
      image_size |-> json_content.image_size,
      intrinsics |-> [entry \in KindEntries(type) |->
                        IF entry \in EntriesRead(type)
                        THEN json_content.intrinsics[entry]
                        ELSE typed[entry]],
      fps |-> camera.fps]

\* read_camera_calibration on an opened file: SetCameraIntrinsicsModelType
\* keeps the intrinsics of a camera that has the type already and gives a
\* camera of another type the defaults of the new type
ReadCameraCalibration(json_content, camera) ==
  LET type == json_content.intrinsic_type
      typed == IF camera.model = type
               THEN camera.intrinsics
               ELSE [entry \in KindEntries(type) |-> "default"]
  IN [model |-> type,
      image_size |-> json_content.image_size,
      intrinsics |-> [entry \in KindEntries(type) |->
                        IF entry \in EntriesRead(type)
                        THEN json_content.intrinsics[entry]
                        ELSE typed[entry]],
      fps |-> json_content.fps]

\* what lines 372-385 write for an output path
ResultFiles(output_path) ==
  IF output_path # ""
  THEN {".calibdata", ".json", "_final_poses.ply"}
  ELSE {}

\* lines 372-387
Publish ==
  /\ pc = "publish"
  /\ \E output_path \in {"", "out"}, first \in DOMAIN views :
       /\ written' = written \cup ResultFiles(output_path)
       /\ json_file' = IF output_path # ""
                       THEN WriteCameraCalibration(views[first])
                       ELSE json_file
  /\ ret' = [ret EXCEPT !.calib = "true"]
  /\ pc' = "done"
  /\ UNCHANGED <<config, client, dataset, reproj, ingestion,
                 ba_options, ids_to_remove, total_repro_error, log>>

\* ------------------------------------------------------------------- client
\* after CalibrateCameraFromJson has returned, the client calls
\* RemoveViewsReprojError(max_reproj_error) on the calibrator: both loops
ClientRemoveViewsReprojError ==
  /\ pc = "done"
  /\ \E max_reproj_error \in {CoarseThreshold, TightThreshold} :
     \E errors \in Evaluations(views, reproj) :
       LET ids == DOMAIN CollectIdsToRemove(errors, max_reproj_error)
       IN /\ views' = RemoveViews(views, ids)
          /\ tracks' = RemoveViewsFromTracks(views, tracks, ids)
          /\ reproj' = Restrict(errors, DOMAIN views')
          /\ last_call' = [name |-> "RemoveViewsReprojError",
                           arg |-> max_reproj_error]
  /\ printed' = {}
  /\ loaded' = << >>
  /\ UNCHANGED <<config, json_file, next_view_id, ingestion, ba_options,
                 ids_to_remove,
                 pc, written, total_repro_error, ret, log>>

\* what PrintResult writes to std::cout for the configured camera model
PrintResultOutput(model) ==
  {"FOCAL_LENGTH", "PRINCIPAL_POINT_X", "PRINCIPAL_POINT_Y"}
    \cup (CASE model = "DIVISION_UNDISTORTION" -> {"RADIAL_DISTORTION_1"}
           [] model = "DOUBLE_SPHERE" -> {"XI", "ALPHA"}
           [] model = "EXTENDED_UNIFIED" -> {"ALPHA", "BETA"}
           [] model = "FISHEYE" ->
                {"RADIAL_DISTORTION_1", "RADIAL_DISTORTION_2",
                 "RADIAL_DISTORTION_3", "RADIAL_DISTORTION_4"}
           [] model = "PINHOLE_DISTORTION" ->
                {"RADIAL_DISTORTION_1", "RADIAL_DISTORTION_2",
                 "RADIAL_DISTORTION_3", "TANGENTIAL_DISTORTION_1",
                 "TANGENTIAL_DISTORTION_2"}
           [] OTHER -> {})

\* the client calls PrintResult.  Without a view, ViewIds()[0] reads past the
\* end of an empty vector: the call crashes or prints what it finds there.
ClientPrintResult ==
  /\ pc = "done"
  /\ \/ /\ printed' = PrintResultOutput(camera_model_)
        /\ last_call' = [name |-> "PrintResult", arg |-> 0]
        /\ loaded' = << >>
        /\ pc' = pc
     \/ /\ NumViews = 0
        /\ pc' = "crashed"
        /\ UNCHANGED client
  /\ UNCHANGED <<config, json_file, dataset, reproj, ingestion, ba_options,
                 ids_to_remove, written, total_repro_error, ret, log>>

\* the client calls read_camera_calibration with a fresh camera; the file
\* opens only if it was written
ClientReadCameraCalibration ==
  /\ pc = "done"
  /\ \E is_open \in BOOLEAN :
       /\ is_open => json_file # << >>
       /\ loaded' =
            IF ~is_open
            THEN [result |-> "false", is_open |-> FALSE,
                  camera |-> CallerCamera]
            ELSE [result |-> "true", is_open |-> TRUE,
                  camera |-> ReadCameraCalibration(json_file, CallerCamera)]
  /\ last_call' = [name |-> "read_camera_calibration", arg |-> 0]
  /\ printed' = {}
  /\ UNCHANGED <<config, json_file, dataset, reproj, ingestion, ba_options,
                 ids_to_remove, pc, written, total_repro_error, ret, log>>

Next ==
  \/ ReadScene
  \/ IngestFrame
  \/ EndIngestion
  \/ RunGate
  \/ Stage1
  \/ Prune5Collect
  \/ Prune5Remove
  \/ Stage2
  \/ Gate2
  \/ Stage3
  \/ Prune2Collect
  \/ Prune2Remove
  \/ Gate3
  \/ BoardPoints
  \/ BoardViews
  \/ RunReturnsTrue
  \/ CalibrationFailed
  \/ ReportError
  \/ Publish
  \/ ClientRemoveViewsReprojError
  \/ ClientPrintResult
  \/ ClientReadCameraCalibration

Spec == Init /\ [][Next]_vars

\* ==================================================================== claims
StepNames == [i \in 1..Len(log) |-> log[i].step]

BundleAdjustments == {"ba1", "ba2", "ba3", "ba_tracks", "ba4"}

StageOrder == <<"ba1", "prune5", "ba2", "ba3", "prune2", "ba_tracks", "ba4">>

ResultFileNames == {".calibdata", ".json", "_final_poses.ply"}

RemoveCall(t) == [name |-> "RemoveViewsReprojError", arg |-> t]

\* C1: every bundle adjustment of RunCalibration runs on a dataset of at
\* least min_num_view_ views: after a sweep that leaves fewer, no later
\* stage is run.
C1_StagesOnlyOnEnoughViews ==
  \A i \in 1..Len(log) :
    log[i].step \in BundleAdjustments => log[i].nviews >= min_num_view_

\* C2: RunCalibration on a dataset of fewer than min_num_view_ views returns
\* false, runs no bundle adjustment and no sweep, and leaves every view and
\* every track as it was.
C2_GateLeavesDatasetUntouched ==
  [][(pc = "rc_gate" /\ NumViews < min_num_view_)
       => /\ ret'.run = "false"
          /\ pc' = "calib_check"
          /\ views' = views
          /\ tracks' = tracks
          /\ log' = log
          /\ log = << >>]_vars

C2_Witness ==
  /\ pc = "calib_check"
  /\ ret.run = "false"
  /\ log = << >>
  /\ NumViews = 1
  /\ min_num_view_ = 2

\* C3: the steps of RunCalibration happen in the one order stage 1, sweep at
\* 5.0, stage 2, stage 3, sweep at 2.0, board points, final view pass; none
\* is repeated, a sweep is over before the next step starts, and a run that
\* returns true has run stages 1, 2 and 3 exactly once each.
C3_FixedOrder ==
  /\ Len(log) <= Len(StageOrder)
  /\ \A i \in 1..Len(log) : StepNames[i] = StageOrder[i]
  /\ ids_to_remove # << >> => pc \in {"prune5_remove", "prune2_remove"}
  /\ ret.run = "true" =>
       /\ Len(log) >= 5
       /\ \A s \in {"ba1", "ba2", "ba3"} :
            Cardinality({i \in 1..Len(log) : StepNames[i] = s}) = 1

C3_Witness ==
  /\ ret.run = "true"
  /\ StepNames = StageOrder

\* C4: a sweep with threshold t removes exactly the views whose error is
\* strictly greater than t: a view at t stays, every view that stays has an
\* error of at most t and is itself unchanged, and the evaluation of the
\* errors changes no view.
C4_SweepRemovesExactlyAbove ==
  [][/\ pc \in {"prune5", "prune2"} => views' = views /\ tracks' = tracks
     /\ \A t \in {CoarseThreshold, TightThreshold} :
          (\/ pc = "prune5_remove" /\ t = CoarseThreshold
           \/ pc = "prune2_remove" /\ t = TightThreshold
           \/ pc = "done" /\ pc' = "done" /\ last_call' = RemoveCall(t))
          => /\ DOMAIN views' \subseteq DOMAIN views
             /\ \A v \in DOMAIN views' :
                  /\ views'[v] = views[v]
                  /\ reproj'[v] <= t
             /\ \A v \in DOMAIN views \cap DOMAIN reproj :
                  /\ v \in DOMAIN views' <=> reproj[v] <= t
                  /\ v \in DOMAIN views' => reproj'[v] = reproj[v]
             /\ pc # "done" => DOMAIN reproj = DOMAIN views]_vars

C4_Witness ==
  /\ pc = "ba2"
  /\ NumViews = 1
  /\ next_view_id = 3
  /\ \E v \in DOMAIN views : reproj[v] = CoarseThreshold

\* C5: a sweep that follows a sweep with the same threshold, with no
\* minimisation in between, removes no view and leaves the dataset as it is.
C5_SecondSweepChangesNothing ==
  [][\A t \in {CoarseThreshold, TightThreshold} :
       (/\ pc = "done"
        /\ last_call' = RemoveCall(t)
        /\ \/ last_call = RemoveCall(t)
           \/ /\ last_call.name = "CalibrateCameraFromJson"
              /\ t = TightThreshold
              /\ log # << >>
              /\ log[Len(log)].step = "prune2")
       => /\ views' = views
          /\ tracks' = tracks
          /\ reproj' = reproj]_vars

C5_Witness ==
  /\ last_call = RemoveCall(TightThreshold)
  /\ log # << >>
  /\ log[Len(log)].step = "prune2"
  /\ NumViews = 2
  /\ next_view_id = 3

\* C6: a successfully initialised frame is rejected exactly when its
\* position is strictly less than grid_size_ away from the position of an
\* accepted frame; an accepted frame adds exactly one view; the positions of
\* the accepted frames are pairwise at least grid_size_ apart, and they are
\* the only ones compared against.
C6_Deduplication ==
  /\ [](/\ \A i, j \in 1..Len(saved_poses) :
             i < j => SquaredNorm(saved_poses[i], saved_poses[j])
                        >= grid_size_ * grid_size_
        /\ pc = "ingest" =>
             /\ DOMAIN views = 0..(Len(saved_poses) - 1)
             /\ \A v \in DOMAIN views :
                  views[v].initial_position = saved_poses[v + 1])
  /\ [][(pc = "ingest" /\ views_initialized' = views_initialized + 1
           /\ frame'.success_init)
         => IF \E i \in 1..Len(saved_poses) :
                 SquaredNorm(frame'.position, saved_poses[i])
                   < grid_size_ * grid_size_
            THEN UNCHANGED <<views, tracks, saved_poses>>
            ELSE /\ saved_poses' = Append(saved_poses, frame'.position)
                 /\ Cardinality(DOMAIN views') = NumViews + 1
                 /\ DOMAIN views \subseteq DOMAIN views'
                 /\ \A v \in DOMAIN views :
                      /\ views'[v].initial_position =
                           views[v].initial_position
                      /\ views'[v].features = views[v].features]_vars

C6_Witness ==
  /\ pc = "ingest"
  /\ views_initialized = 3
  /\ frame.success_init
  /\ frame.position = <<1, 1, 0>>
  /\ saved_poses = << <<0, 0, 0>>, <<2, 0, 0>> >>
  /\ NumViews = 2

\* C7: a frame whose pose initialisation fails adds no view, no observation
\* and no saved position, and the loop goes on.
C7_FailedFrameSkipped ==
  [][(pc = "ingest" /\ views_initialized' = views_initialized + 1
        /\ ~frame'.success_init)
      => /\ UNCHANGED <<views, tracks, next_view_id, saved_poses>>
         /\ pc' = "ingest"]_vars

C7_Witness ==
  /\ pc = "ingest"
  /\ views_initialized = 2
  /\ ~frame.success_init
  /\ Len(frame.ids) >= MinCorrespondences
  /\ NumViews = 1
  /\ TakeImage(frame.position, saved_poses, grid_size_)

C9_NothingPublishedOnFailure ==
  ret.run = "false" =>
    /\ written \cap ResultFileNames = {}
    /\ total_repro_error = << >>
    /\ ret.calib # "true"
    /\ pc = "done" => ret.calib = "false"

C9_Witness ==
  /\ pc = "done"
  /\ ret.calib = "false"
  /\ Len(log) = 5
  /\ written = {"_ransac_poses.ply"}

\* C10: the point of a track changes only in the board-point step, which
\* runs only when optimize_board_pts_ is set, after the gate that follows the
\* sweep at 2.0, once, with the homogeneous parametrization on, and is
\* followed by exactly one more pass over the views.
C10_BoardPointsOnlyInBoardStage ==
  /\ [](/\ ~optimize_board_pts_ =>
             /\ \A t \in DOMAIN tracks : tracks[t].point = "init"
             /\ Len(log) <= 5
        /\ (optimize_board_pts_ /\ ret.run = "true") =>
             /\ Len(log) = 7
             /\ log[6].step = "ba_tracks"
             /\ log[6].nviews >= min_num_view_
             /\ log[7].step = "ba4"
             /\ ba_options.use_homogeneous_point_parametrization)
  /\ [][(\E t \in DOMAIN tracks \cap DOMAIN tracks' :
           tracks'[t].point # tracks[t].point)
         => /\ pc = "board"
            /\ pc' = "ba4"
            /\ optimize_board_pts_
            /\ ba_options'.use_homogeneous_point_parametrization
            /\ views' = views]_vars

C10_Witness ==
  /\ ret.run = "true"
  /\ optimize_board_pts_
  /\ \E t \in DOMAIN tracks : tracks[t].point = "ba_tracks"

\* C11: for each of the six camera-model kinds PrintResult reports the focal
\* length, the principal point and every distortion parameter of the kind,
\* and leaves the dataset as it is.
C11_PrintResultReportsAll ==
  /\ []((last_call.name = "PrintResult" /\ ret.calib = "true"
            /\ NumViews >= 1) =>
          {"FOCAL_LENGTH", "PRINCIPAL_POINT_X", "PRINCIPAL_POINT_Y"}
            \cup KindDistortion(camera_model_) \subseteq printed)
  /\ [][last_call'.name = "PrintResult" =>
          views' = views /\ tracks' = tracks]_vars

\* C12: a calibration file read back with read_camera_calibration gives the
\* camera-model kind and, entry by entry, the parameter vector that was
\* serialized, for every kind.
C12_RoundTripRestoresIntrinsics ==
  (loaded # << >> /\ loaded.result = "true") =>
    /\ loaded.camera.model = json_file.intrinsic_type
    /\ loaded.camera.intrinsics = json_file.intrinsics

\* the parts of a view a minimisation may write, besides the given types
SameExcept(before, after, types) ==
  /\ DOMAIN after = DOMAIN before
  /\ \A v \in DOMAIN before :
       /\ \A p \in Params \ types : after[v].wr[p] = before[v].wr[p]
       /\ after[v].features = before[v].features
       /\ after[v].model = before[v].model

\* C14: stage 2 holds orientation and position constant and frees exactly
\* the principal point; every view's pose, focal length, aspect ratio and
\* distortion and every target point are after stage 2 what they were
\* before it.
C14_Stage2OnlyPrincipalPoint ==
  [][(pc = "ba2" /\ pc' # "ba2") =>
       /\ ba_options'.constant_camera_orientation
       /\ ba_options'.constant_camera_position
       /\ ba_options'.intrinsics_to_optimize = {"PRINCIPAL_POINTS"}
       /\ SameExcept(views, views', {"PRINCIPAL_POINTS"})
       /\ \A v \in DOMAIN views : views'[v].wr["PRINCIPAL_POINTS"] = "ba2"
       /\ tracks' = tracks]_vars

\* stage 2 has run on views whose pose and focal length stage 1 wrote
C14_Witness ==
  /\ pc = "gate2"
  /\ NumViews >= 2
  /\ \A v \in DOMAIN views :
       /\ views[v].wr["PRINCIPAL_POINTS"] = "ba2"
       /\ views[v].wr["POSITION"] = "ba1"
       /\ views[v].wr["ORIENTATION"] = "ba1"
       /\ views[v].wr["FOCAL_LENGTH"] = "ba1"

\* what stage 1 frees for a camera-model kind
Stage1Free(kind) ==
  {"ORIENTATION", "POSITION", "FOCAL_LENGTH"}
    \cup (IF kind = "PINHOLE" THEN {} ELSE {"RADIAL_DISTORTION"})

\* C15: stage 1 frees orientation, position and focal length for every kind
\* and the radial distortion for every kind but the pinhole model; the
\* principal point, the aspect ratio and the tangential terms stay fixed.
C15_Stage1FreeSet ==
  pc = "prune5" =>
    /\ FreeParams(ba_options) = Stage1Free(camera_model_)
    /\ \A v \in DOMAIN views : \A p \in Params :
         views[v].wr[p] =
           IF p \in Stage1Free(camera_model_) THEN "ba1" ELSE "init"

\* stage 1 has run on pinhole views: focal length written, radial term not
C15_Witness ==
  /\ pc = "prune5"
  /\ camera_model_ = "PINHOLE"
  /\ NumViews >= 2
  /\ \A v \in DOMAIN views :
       /\ views[v].wr["FOCAL_LENGTH"] = "ba1"
       /\ views[v].wr["RADIAL_DISTORTION"] = "init"

\* the model-specific distortion the full stage is to free for a kind
Stage3Distortion(kind) ==
  CASE kind = "PINHOLE" -> {"RADIAL_DISTORTION"}
    [] kind = "PINHOLE_RADIAL_TANGENTIAL" -> {"TANGENTIAL_DISTORTION"}
    [] OTHER -> {EntryType(entry) : entry \in KindDistortion(kind)}

\* C16: stage 3 frees orientation, position, focal length, principal point
\* and aspect ratio together with the model-specific distortion of the kind,
\* for every camera-model kind.
C16_Stage3FreesKindDistortion ==
  pc = "prune2" =>
    {"ORIENTATION", "POSITION", "FOCAL_LENGTH", "PRINCIPAL_POINTS",
     "ASPECT_RATIO"} \cup Stage3Distortion(camera_model_)
      \subseteq FreeParams(ba_options)

\* every observation has both its view and its target point in the dataset
ObservationsPresent ==
  /\ \A v \in DOMAIN views : \A t \in views[v].features :
       t \in DOMAIN tracks /\ v \in tracks[t].view_ids
  /\ \A t \in DOMAIN tracks : \A v \in tracks[t].view_ids :
       v \in DOMAIN views /\ t \in views[v].features

\* C17: an accepted frame adds exactly one view and one observation per
\* correspondence of the frame, each attached to the new view and to a
\* target point already present; every observation of the dataset always
\* refers to a view and a target point that are present.
C17_OneObservationPerCorrespondence ==
  /\ []ObservationsPresent
  /\ [][(pc = "ingest" /\ next_view_id' # next_view_id) =>
          /\ next_view_id \notin DOMAIN views
          /\ DOMAIN views' = DOMAIN views \cup {next_view_id}
          /\ \A v \in DOMAIN views : views'[v].features = views[v].features
          /\ DOMAIN tracks' = DOMAIN tracks
          /\ views'[next_view_id].features \subseteq DOMAIN tracks
          /\ Cardinality(views'[next_view_id].features) = Len(frame'.ids)
          /\ \A i \in DOMAIN frame'.ids :
               frame'.ids[i] \in views'[next_view_id].features]_vars

\* a step of the first loop of a sweep of RunCalibration
IsCollectStep ==
  /\ pc \in {"prune5", "prune2"}
  /\ pc' # pc

\* a step of the second loop of a sweep of RunCalibration
IsRemoveStep ==
  /\ pc \in {"prune5_remove", "prune2_remove"}
  /\ pc' # pc

\* C18: a sweep first evaluates every view of the dataset as it stood when
\* the sweep began, removing nothing, and removes the collected views only
\* after the last evaluation.
C18_TwoPhaseSweep ==
  /\ [](pc \in {"prune5_remove", "prune2_remove"} =>
          /\ DOMAIN reproj = DOMAIN views
          /\ DOMAIN ids_to_remove \subseteq DOMAIN views)
  /\ [][/\ IsCollectStep =>
             /\ views' = views
             /\ tracks' = tracks
             /\ DOMAIN reproj' = DOMAIN views
        /\ IsRemoveStep =>
             DOMAIN views' = DOMAIN views \ DOMAIN ids_to_remove]_vars

\* every view has been evaluated, one is to be removed, none is removed yet
C18_Witness ==
  /\ pc = "prune5_remove"
  /\ NumViews = 3
  /\ DOMAIN reproj = DOMAIN views
  /\ Cardinality(DOMAIN ids_to_remove) = 1

\* C19: the result of an insertion is checked before the next one: a failed
\* AddObservation is the last insertion made for its frame.
C19_FailedInsertionEndsFrame ==
  \A i \in DOMAIN frame.results :
    ~frame.results[i] => i = Len(frame.results)

\* the steps of RunCalibration that call a bundle adjustment
AdjustmentSteps == {"ba1", "ba2", "ba3", "board", "ba4"}

\* C20: within CalibrateCameraFromJson views are added only during ingestion,
\* before any optimization step has run, ingestion optimizes nothing and is
\* not resumed, views are removed only by the second loop of the two sweeps,
\* and no bundle adjustment adds or removes a view.
C20_IngestionThenOptimization ==
  [][pc # "done" =>
       /\ DOMAIN views' \ DOMAIN views # {} => pc = "ingest" /\ log = << >>
       /\ DOMAIN views \ DOMAIN views' # {} => IsRemoveStep
       /\ pc = "ingest" =>
            /\ log' = << >>
            /\ \A v \in DOMAIN views : views'[v].wr = views[v].wr
            /\ \A t \in DOMAIN tracks : tracks'[t].point = tracks[t].point
       /\ pc' = "ingest" => pc \in {"start", "ingest"}
       /\ pc \in AdjustmentSteps => DOMAIN views' = DOMAIN views]_vars

\* all four stages have run, and the sweeps have removed a view on the way
C20_Witness ==
  /\ pc = "rc_end"
  /\ NumViews = 2
  /\ next_view_id = 3
  /\ Len(log) = 7

\* C21: when RunCalibration has returned true the dataset holds at least
\* min_num_view_ views, with or without the board-point stage, so the mean
\* of the reporter divides by a view count that is not zero and the first
\* view it reads exists.
C21_EnoughViewsAtReturn ==
  /\ (pc \in {"calib_check", "publish"} /\ ret.run = "true") =>
       /\ NumViews >= min_num_view_
       /\ min_num_view_ >= 1 => DOMAIN views # {}
  /\ pc = "publish" =>
       /\ total_repro_error[2] = NumViews
       /\ min_num_view_ >= 1 => total_repro_error[2] # 0

\* the mean has been taken over the two views the second sweep left of three
C21_Witness ==
  /\ pc = "publish"
  /\ ret.run = "true"
  /\ next_view_id = 3
  /\ NumViews = 2
  /\ total_repro_error[2] = 2

\* C22: for every camera-model kind the parameters stage 3 leaves free
\* include the parameters stage 1 left free.
C22_Stage3FreesWhatStage1Freed ==
  pc = "prune2" =>
    FreeParams(Stage1Options(InitialBaOptions, camera_model_))
      \subseteq FreeParams(ba_options)

\* C23: read_camera_calibration returns false when the file cannot be opened
\* and then leaves the camera and the fps of the caller as they were; when
\* it returns true the model kind, the image size, the principal point, the
\* focal length and the fps are those of the file.
C23_ReadFailureLeavesCallerUntouched ==
  loaded # << >> =>
    /\ loaded.result = "false" <=> ~loaded.is_open
    /\ loaded.result = "false" => loaded.camera = CallerCamera
    /\ loaded.result = "true" =>
         /\ json_file # << >>
         /\ loaded.camera.model = json_file.intrinsic_type
         /\ loaded.camera.image_size = json_file.image_size
         /\ loaded.camera.fps = json_file.fps
         /\ \A entry \in {"PRINCIPAL_POINT_X", "PRINCIPAL_POINT_Y",
                          "FOCAL_LENGTH"} :
              loaded.camera.intrinsics[entry] = json_file.intrinsics[entry]

\* a written fisheye calibration has been read back
C23_Witness ==
  /\ loaded # << >>
  /\ loaded.result = "true"
  /\ loaded.camera.model = "FISHEYE"
  /\ loaded.camera.fps = "camera_fps"
  /\ loaded.camera.intrinsics["FOCAL_LENGTH"] = "ba4"

\* C24: every view is seeded with the image center as principal point, the
\* estimated flag and the camera-model kind of the calibrator, so all views
\* carry the same kind throughout ingestion and optimization.
C24_ViewsSeeded ==
  \A v \in DOMAIN views :
    /\ views[v].estimated
    /\ views[v].model = camera_model_
    /\ views[v].wr["PRINCIPAL_POINTS"] = "init" =>
         views[v].principal_point = "image_center"

====
